---------------------------- MODULE Spec2Model ----------------------------
(***************************************************************************)
(* A model of src-tauri/resources/simple_whisper_solution.py: the command  *)
(* line utility that downloads the Whisper model file and transcribes an   *)
(* audio file.  Each process of Procs is one invocation of the script; the *)
(* model file on disk is the only state the invocations share.             *)
(***************************************************************************)
EXTENDS Integers, Sequences, FiniteSets, TLC

(* The longest command line (number of arguments after the program name). *)
MaxArgs == 3

(* The invocations of the script that may overlap in time. *)
Procs == {"p1", "p2"}

(* The words a command line is made of. *)
Tokens == {"download", "transcribe", "--verify", "--verbose", "-h", "--bogus", "a.wav"}

RECURSIVE SeqsUpTo(_)
SeqsUpTo(n) ==
    IF n = 0 THEN {<<>>}
    ELSE LET shorter == SeqsUpTo(n - 1)
         IN  shorter \cup {Append(s, t) : s \in {x \in shorter : Len(x) = n - 1}, t \in Tokens}

Argvs == SeqsUpTo(MaxArgs)

---------------------------------------------------------------------------
(* argparse, as main() configures it (lines 178-190).                      *)

IsOption(tok) == tok \in {"--verify", "--verbose", "-h", "--bogus"}

NoArgs == [command |-> "None", verify |-> FALSE, verbose |-> FALSE, audio_path |-> "None"]

(* The download sub-parser: two store_true flags and -h; anything else is  *)
(* left over and rejected once parsing ends.                               *)
RECURSIVE ParseDownload(_, _, _)
ParseDownload(rest, ns, extras) ==
    IF rest = <<>>
    THEN IF extras THEN [status |-> "error", args |-> NoArgs]
         ELSE [status |-> "ok", args |-> ns]
    ELSE LET tok == Head(rest) IN
         IF tok = "-h" THEN [status |-> "help", args |-> NoArgs]
         ELSE IF tok = "--verify"
              THEN ParseDownload(Tail(rest), [ns EXCEPT !.verify = TRUE], extras)
         ELSE IF tok = "--verbose"
              THEN ParseDownload(Tail(rest), [ns EXCEPT !.verbose = TRUE], extras)
         ELSE ParseDownload(Tail(rest), ns, TRUE)

(* The transcribe sub-parser: one required positional audio_path and -h.   *)
RECURSIVE ParseTranscribe(_, _, _)
ParseTranscribe(rest, ns, extras) ==
    IF rest = <<>>
    THEN IF ns.audio_path = "None" \/ extras THEN [status |-> "error", args |-> NoArgs]
         ELSE [status |-> "ok", args |-> ns]
    ELSE LET tok == Head(rest) IN
         IF tok = "-h" THEN [status |-> "help", args |-> NoArgs]
         ELSE IF IsOption(tok) THEN ParseTranscribe(Tail(rest), ns, TRUE)
         ELSE IF ns.audio_path = "None"
              THEN ParseTranscribe(Tail(rest), [ns EXCEPT !.audio_path = tok], extras)
         ELSE ParseTranscribe(Tail(rest), ns, TRUE)

(* parser.parse_args(): "ok" with the namespace, "help" (-h prints the     *)
(* help and exits 0) or "error" (parser.error prints the usage and exits   *)
(* 2).  The sub-command is optional: without one, command stays None.      *)
RECURSIVE ParseTop(_, _)
ParseTop(rest, extras) ==
    IF rest = <<>>
    THEN IF extras THEN [status |-> "error", args |-> NoArgs]
         ELSE [status |-> "ok", args |-> NoArgs]
    ELSE LET tok == Head(rest) IN
         IF tok = "-h" THEN [status |-> "help", args |-> NoArgs]
         ELSE IF IsOption(tok) THEN ParseTop(Tail(rest), TRUE)
         ELSE IF tok = "download"
              THEN ParseDownload(Tail(rest), [NoArgs EXCEPT !.command = "download"], extras)
         ELSE IF tok = "transcribe"
              THEN ParseTranscribe(Tail(rest), [NoArgs EXCEPT !.command = "transcribe"], extras)
         ELSE [status |-> "error", args |-> NoArgs]

ParseArgs(argv) == ParseTop(argv, FALSE)

ArgparseExitOne(status) == IF status = "help" THEN 0 ELSE 1

(* The exit code argparse itself ends the process with. *)
ArgparseExit(status) == IF status = "help" THEN 0 ELSE 2

---------------------------------------------------------------------------
(* Standard output: a sequence of human-readable lines and JSON documents. *)

Line(text) == [kind |-> "text", body |-> text]

(* json.dumps of a dict: the members, as <<key, value>> pairs, in the      *)
(* dict's insertion order.                                                 *)
JsonDumps(members) == [kind |-> "json", body |-> members]

ErrorDoc(message) == JsonDumps(<< <<"error", message>> >>)

JsonKeys(doc) == {doc.body[i][1] : i \in DOMAIN doc.body}

JsonGet(doc, key) == doc.body[CHOOSE i \in DOMAIN doc.body : doc.body[i][1] = key][2]

IsErrorDoc(doc) == doc.kind = "json" /\ JsonKeys(doc) = {"error"}

---------------------------------------------------------------------------
(* Module import, lines 21-65.  tqdm is imported; when the import fails    *)
(* pip is run (its output goes to the inherited standard output) and, when *)
(* that fails too, a fallback class that prints to standard output is      *)
(* defined.  os.makedirs(MODELS_DIR) is taken to succeed.                  *)

TqdmOutcomes == {"present", "installed", "fallback"}

ImportLines(tq) ==
    IF tq = "present" THEN <<>>
    ELSE IF tq = "installed"
         THEN <<Line("Installing tqdm package..."), Line("pip output")>>
    ELSE <<Line("Installing tqdm package..."), Line("Error installing tqdm package")>>

ProgressKind(tq) == IF tq = "fallback" THEN "fallback" ELSE "tqdm"

(* DownloadProgressBar: the real tqdm draws on standard error, the         *)
(* fallback class prints on standard output (lines 32-53).                 *)
ProgressStart(kind) == IF kind = "fallback" THEN <<Line("Downloading started...")>> ELSE <<>>
ProgressUpdate(kind) == IF kind = "fallback" THEN <<Line("Downloading: % completed")>> ELSE <<>>
ProgressClose(kind) == IF kind = "fallback" THEN <<Line("Download completed!")>> ELSE <<>>

---------------------------------------------------------------------------
(* The environment's answers.                                              *)

(* urlopen of the HEAD request: a response, a timeout after 10 seconds or  *)
(* a connection error.  Content-Length is absent or a string of            *)
(* characters.                                                             *)
Digits == {"0", "1", "2", "3", "4", "5", "6", "7", "8", "9"}

ContentLengths ==
    { [present |-> FALSE, chars |-> <<>>],
      [present |-> TRUE, chars |-> <<"7", "5">>],
      [present |-> TRUE, chars |-> <<"7", "x">>] }

NoHead == [kind |-> "none", status |-> 0, content_length |-> [present |-> FALSE, chars |-> <<>>]]

HeadOutcomes ==
    { [NoHead EXCEPT !.kind = "timeout"], [NoHead EXCEPT !.kind = "urlerror"] }
    \cup [kind : {"response"}, status : {200, 204, 404}, content_length : ContentLengths]

(* int(content_length) raises TypeError on None and ValueError on a string *)
(* that is not a decimal integer.                                          *)
IntParses(cl) == cl.present /\ cl.chars # <<>> /\ \A i \in DOMAIN cl.chars : cl.chars[i] \in Digits

(* urlopen raises for a timeout, a connection error and, through           *)
(* HTTPDefaultErrorHandler, for every status outside 2xx.                  *)
UrlopenRaises(o) == o.kind # "response" \/ o.status < 200 \/ o.status >= 300

VerifyResultStatusOnly(o) == ~UrlopenRaises(o) /\ o.status = 200

(* verify_model_download, lines 106-124: what it returns and prints.       *)
VerifyResult(o) ==
    IF UrlopenRaises(o) THEN FALSE
    ELSE IF o.status = 200 THEN IntParses(o.content_length)
    ELSE FALSE

VerifyLines(o) ==
    IF UrlopenRaises(o) THEN <<Line("Error verifying model URL")>>
    ELSE IF o.status = 200
         THEN IF IntParses(o.content_length) THEN <<Line("Model URL is valid. File size")>>
              ELSE <<Line("Error verifying model URL")>>
    ELSE <<Line("Model URL returned status code")>>

(* urlretrieve, first half: the GET request is answered or fails. *)
OpenOutcomes == {"ok", "http_404", "http_error", "url_error"}

(* urlretrieve, second half: the body is copied to the file or fails. *)
TransferOutcomes == {"complete", "io_error", "connection_lost", "too_short"}

(* The except clause of download_model, lines 98-104. *)
DownloadErrorLines(o) ==
    IF o = "http_404"
    THEN <<Line("Error downloading model"), Line("Model file not found at URL"),
           Line("The model may have been moved or renamed")>>
    ELSE <<Line("Error downloading model")>>

(* The dicts model.transcribe may return: text, language and segments are  *)
(* each present or not.                                                    *)
LibTexts == {"hello"}
LibLanguages == {"da"}
LibSegments == {<<"s1", "s2">>}

LibKeySets == SUBSET {"text", "language", "segments"}

LibResults ==
    UNION { [text : IF "text" \in ks THEN LibTexts ELSE {"absent"},
             language : IF "language" \in ks THEN LibLanguages ELSE {"absent"},
             segments : IF "segments" \in ks THEN LibSegments ELSE {<<>>},
             keys : {ks}] : ks \in LibKeySets }

NoResult == [text |-> "absent", language |-> "absent", segments |-> <<>>, keys |-> {}]

GetAlwaysDefault(result, key, default) == default

(* dict.get(key, default) on a library result. *)
Get(result, key, default) == IF key \in result.keys THEN result[key] ELSE default

(* Lines 169-175: result["text"] raises KeyError when text is missing and  *)
(* the except clause turns it into an error document.                      *)
TranscriptionDoc(result) ==
    IF "text" \in result.keys
    THEN JsonDumps(<< <<"text", result.text>>,
                      <<"language", Get(result, "language", "en")>>,
                      <<"segments", Get(result, "segments", <<>>)>> >>)
    ELSE ErrorDoc("Transcription error: 'text'")

DownloadExitAlwaysZero(success) == 0

(* Line 199. *)
DownloadExit(success) == IF success THEN 0 ELSE 1

---------------------------------------------------------------------------
VARIABLES
    scenario,    \* "concurrent" (all of Procs run) or "single" (one invocation)
    argv,        \* the command line of the invocation, in the "single" scenario
    modelFile,   \* WHISPER_MODEL_PATH on disk: "absent", "partial" or "complete"
    pc,          \* where each invocation is
    args,        \* the namespace parse_args returned
    progress,    \* which progress bar class the import ended with
    imported,    \* whether whisper is in sys.modules
    stdout,      \* what the invocation wrote to standard output
    ops,         \* the operations the invocation performed, in order
    exitCode,    \* -1 while running, then the process's exit code
    uncaught,    \* the process ended with an uncaught exception
    fileAtStart, \* the state of the model file when the invocation began
    headResponse,\* what the HEAD request of verify_model_download met
    libResult    \* what model.transcribe returned

vars == <<scenario, argv, modelFile, pc, args, progress, imported, stdout, ops, exitCode, uncaught, fileAtStart,
          headResponse, libResult>>

Running == -1

FirstProc == CHOOSE p \in Procs : TRUE

InitWith(sc) ==
    /\ scenario = sc
    /\ argv = [p \in Procs |-> <<>>]
    /\ modelFile \in {"absent", "complete"}
    /\ pc = [p \in Procs |-> "start"]
    /\ args = [p \in Procs |-> NoArgs]
    /\ progress = [p \in Procs |-> "tqdm"]
    /\ imported = [p \in Procs |-> FALSE]
    /\ stdout = [p \in Procs |-> <<>>]
    /\ ops = [p \in Procs |-> <<>>]
    /\ exitCode = [p \in Procs |-> Running]
    /\ uncaught = [p \in Procs |-> FALSE]
    /\ fileAtStart = [p \in Procs |-> "absent"]
    /\ headResponse = [p \in Procs |-> NoHead]
    /\ libResult = [p \in Procs |-> NoResult]

Init == InitWith("concurrent")

InitCli == InitWith("single")

ModelExistsAndWhole == modelFile = "complete"

(* os.path.exists(WHISPER_MODEL_PATH), lines 75 and 148. *)
ModelExists == modelFile # "absent"

(* Another invocation holds the model file open for writing. *)
OtherWriter(p) == \E q \in Procs \ {p} : pc[q] = "transfer"

(* main, lines 200-203: print(result); sys.exit(0). *)
TranscribeExit == 0

(* main, lines 204-206: parser.print_help(); sys.exit(1). *)
NoCommandExit == 1

(* main, line 197: sys.exit(1) when the verification failed. *)
VerifyFailedExit == 1

(* The exit code of a Python process that ends with an uncaught exception. *)
UncaughtExit == 1

(* Where main goes once parse_args returned a namespace (lines 192-206). *)
Dispatch(a) ==
    IF a.command = "download" THEN (IF a.verify THEN "verify" ELSE "download_model")
    ELSE IF a.command = "transcribe" THEN "audio_check"
    ELSE "exited"

AfterDownloadPcIgnoringResult(a, success) ==
    IF a.command = "transcribe" THEN "install_whisper" ELSE "exited"

(* The return of download_model to its caller: main exits with the result  *)
(* (line 199); transcribe_audio goes on or returns its error document      *)
(* (lines 149-150), which main prints before it exits 0.                   *)
AfterDownloadPc(a, success) ==
    IF a.command = "transcribe" /\ success THEN "install_whisper" ELSE "exited"

AfterDownloadLines(a, success) ==
    IF a.command = "transcribe" /\ ~success
    THEN <<ErrorDoc("Failed to download Whisper model")>>
    ELSE <<>>

AfterDownloadExit(a, success) ==
    IF a.command = "transcribe"
    THEN (IF success THEN Running ELSE TranscribeExit)
    ELSE DownloadExit(success)

(* What parse_args makes of the command lines. *)
ParseResults == {ParseArgs(av) : av \in Argvs}

(* The script starts with command line av, which parse_args turns into     *)
(* parsed: the module is imported, and main dispatches on the command.     *)
LaunchWith(p, av, parsed, tq) ==
    /\ argv' = [argv EXCEPT ![p] = av]
    /\ progress' = [progress EXCEPT ![p] = ProgressKind(tq)]
    /\ fileAtStart' = [fileAtStart EXCEPT ![p] = modelFile]
    /\ ops' = [ops EXCEPT ![p] = <<"parse_args">>]
    /\ IF parsed.status = "ok"
       THEN /\ args' = [args EXCEPT ![p] = parsed.args]
            /\ pc' = [pc EXCEPT ![p] = Dispatch(parsed.args)]
            /\ IF Dispatch(parsed.args) = "exited"
               THEN /\ stdout' = [stdout EXCEPT ![p] = ImportLines(tq) \o <<Line("usage help")>>]
                    /\ exitCode' = [exitCode EXCEPT ![p] = NoCommandExit]
               ELSE /\ stdout' = [stdout EXCEPT ![p] = ImportLines(tq)]
                    /\ UNCHANGED exitCode
       ELSE /\ args' = [args EXCEPT ![p] = [NoArgs EXCEPT !.command = parsed.status]]
            /\ pc' = [pc EXCEPT ![p] = "exited"]
            /\ stdout' = [stdout EXCEPT ![p] =
                   ImportLines(tq) \o (IF parsed.status = "help" THEN <<Line("usage help")>> ELSE <<>>)]
            /\ exitCode' = [exitCode EXCEPT ![p] = ArgparseExit(parsed.status)]

(* An invocation begins.  In the "single" scenario one invocation runs and *)
(* its command line is kept; in the "concurrent" scenario every invocation *)
(* of Procs runs and only what parse_args made of the command line is      *)
(* kept.                                                                   *)
Launch(p) ==
    /\ pc[p] = "start"
    /\ \E tq \in TqdmOutcomes :
         IF scenario = "single"
         THEN /\ p = FirstProc
              /\ \E av \in Argvs : LaunchWith(p, av, ParseArgs(av), tq)
         ELSE \E parsed \in ParseResults : LaunchWith(p, <<>>, parsed, tq)
    /\ UNCHANGED <<scenario, modelFile, imported, uncaught, headResponse, libResult>>

(* main, lines 194-197: download --verify runs verify_model_download.      *)
VerifyModelDownload(p) ==
    /\ pc[p] = "verify"
    /\ \E o \in HeadOutcomes :
         /\ headResponse' = [headResponse EXCEPT ![p] = o]
         /\ IF VerifyResult(o)
            THEN /\ ops' = [ops EXCEPT ![p] = @ \o <<"verify_model_download", "HEAD", "verify_true">>]
                 /\ stdout' = [stdout EXCEPT ![p] = @ \o VerifyLines(o)]
                 /\ pc' = [pc EXCEPT ![p] = "download_model"]
                 /\ UNCHANGED exitCode
            ELSE /\ ops' = [ops EXCEPT ![p] = @ \o <<"verify_model_download", "HEAD", "verify_false">>]
                 /\ stdout' = [stdout EXCEPT ![p] =
                        @ \o VerifyLines(o) \o <<Line("Model URL verification failed. Aborting download.")>>]
                 /\ pc' = [pc EXCEPT ![p] = "exited"]
                 /\ exitCode' = [exitCode EXCEPT ![p] = VerifyFailedExit]
    /\ UNCHANGED <<scenario, argv, modelFile, args, progress, imported, uncaught, fileAtStart, libResult>>

(* download_model, lines 73-79: the existence check. *)
DownloadModel(p) ==
    /\ pc[p] = "download_model"
    /\ IF ModelExists
       THEN /\ ops' = [ops EXCEPT ![p] = @ \o <<"download_model", "download_true">>]
            /\ stdout' = [stdout EXCEPT ![p] =
                   @ \o <<Line("Model already exists")>> \o AfterDownloadLines(args[p], TRUE)]
            /\ pc' = [pc EXCEPT ![p] = AfterDownloadPc(args[p], TRUE)]
            /\ exitCode' = [exitCode EXCEPT ![p] = AfterDownloadExit(args[p], TRUE)]
       ELSE /\ ops' = [ops EXCEPT ![p] = @ \o <<"download_model">>]
            /\ stdout' = [stdout EXCEPT ![p] = @ \o <<Line("Downloading Whisper model")>>]
            /\ pc' = [pc EXCEPT ![p] = "urlretrieve"]
            /\ UNCHANGED exitCode
    /\ UNCHANGED <<scenario, argv, modelFile, args, progress, imported, uncaught, fileAtStart,
                   headResponse, libResult>>

(* download_model, lines 80-95 and 98-104: urlretrieve sends the GET       *)
(* request; once it is answered the destination file is opened for         *)
(* writing, which creates or truncates it.                                 *)
Urlretrieve(p) ==
    /\ pc[p] = "urlretrieve"
    /\ \E o \in OpenOutcomes :
         /\ IF o = "ok"
            THEN /\ ops' = [ops EXCEPT ![p] = @ \o <<"GET", o>>]
                 /\ modelFile' = "partial"
                 /\ stdout' = [stdout EXCEPT ![p] =
                        @ \o <<Line("Downloading from"), Line("Saving to")>> \o ProgressStart(progress[p])]
                 /\ pc' = [pc EXCEPT ![p] = "transfer"]
                 /\ UNCHANGED exitCode
            ELSE /\ ops' = [ops EXCEPT ![p] = @ \o <<"GET", o, "download_false">>]
                 /\ UNCHANGED modelFile
                 /\ stdout' = [stdout EXCEPT ![p] =
                        @ \o <<Line("Downloading from"), Line("Saving to")>> \o ProgressStart(progress[p])
                          \o ProgressClose(progress[p]) \o DownloadErrorLines(o)
                          \o AfterDownloadLines(args[p], FALSE)]
                 /\ pc' = [pc EXCEPT ![p] = AfterDownloadPc(args[p], FALSE)]
                 /\ exitCode' = [exitCode EXCEPT ![p] = AfterDownloadExit(args[p], FALSE)]
    /\ UNCHANGED <<scenario, argv, args, progress, imported, uncaught, fileAtStart, headResponse, libResult>>

TransferOkUnlessIoError(o) == o # "io_error"

(* urlretrieve returns when the whole body was copied and raises           *)
(* otherwise; download_model returns True on the one, False on the other.  *)
TransferOk(o) == o = "complete"

FileAfterTransferCleaningUp(p, o) == IF o = "complete" THEN {"complete"} ELSE {"absent"}

(* What is on disk when a transfer ends.  A failed transfer leaves what it *)
(* wrote, as nothing removes the file; a completed one leaves the whole    *)
(* file unless another invocation truncated the file meanwhile and is      *)
(* still writing it.                                                       *)
FileAfterTransfer(p, o) ==
    IF o = "complete"
    THEN (IF OtherWriter(p) THEN {"partial", "complete"} ELSE {"complete"})
    ELSE {modelFile}

(* download_model, lines 91-104: the body is copied to the file. *)
Transfer(p) ==
    /\ pc[p] = "transfer"
    /\ \E o \in TransferOutcomes :
         /\ modelFile' \in FileAfterTransfer(p, o)
         /\ ops' = [ops EXCEPT ![p] =
                @ \o <<o, IF TransferOk(o) THEN "download_true" ELSE "download_false">>]
         /\ stdout' = [stdout EXCEPT ![p] =
                @ \o ProgressUpdate(progress[p]) \o ProgressClose(progress[p])
                  \o (IF TransferOk(o) THEN <<Line("Model downloaded to")>> ELSE DownloadErrorLines(o))
                  \o AfterDownloadLines(args[p], TransferOk(o))]
         /\ pc' = [pc EXCEPT ![p] = AfterDownloadPc(args[p], TransferOk(o))]
         /\ exitCode' = [exitCode EXCEPT ![p] = AfterDownloadExit(args[p], TransferOk(o))]
    /\ UNCHANGED <<scenario, argv, args, progress, imported, uncaught, fileAtStart, headResponse, libResult>>

---------------------------------------------------------------------------
(* transcribe_audio, lines 142-175, and the lines 201-203 of main that     *)
(* print what it returns and exit.                                         *)

(* transcribe_audio returns doc: main prints it and exits. *)
ReturnDoc(p, newOps, lines, doc) ==
    /\ ops' = [ops EXCEPT ![p] = @ \o newOps]
    /\ stdout' = [stdout EXCEPT ![p] = @ \o lines \o <<doc>>]
    /\ pc' = [pc EXCEPT ![p] = "exited"]
    /\ exitCode' = [exitCode EXCEPT ![p] = TranscribeExit]

(* The only paths at which the file system may hold an audio file. *)
AudioFiles == {"a.wav"}

(* Lines 144-145. *)
AudioCheck(p) ==
    /\ pc[p] = "audio_check"
    /\ \E exists \in (IF args[p].audio_path \in AudioFiles THEN BOOLEAN ELSE {FALSE}) :
         IF exists
         THEN /\ ops' = [ops EXCEPT ![p] = @ \o <<"audio_exists", "audio_present">>]
              /\ pc' = [pc EXCEPT ![p] = "model_check"]
              /\ UNCHANGED <<stdout, exitCode>>
         ELSE ReturnDoc(p, <<"audio_exists", "audio_missing">>, <<>>, ErrorDoc("Audio file not found"))
    /\ UNCHANGED <<scenario, argv, modelFile, args, progress, imported, uncaught, fileAtStart,
                   headResponse, libResult>>

(* Line 148: download_model is called only when the file is not there. *)
ModelCheck(p) ==
    /\ pc[p] = "model_check"
    /\ ops' = [ops EXCEPT ![p] =
           @ \o <<"model_exists", IF ModelExists THEN "model_present" ELSE "model_missing">>]
    /\ pc' = [pc EXCEPT ![p] = IF ModelExists THEN "install_whisper" ELSE "download_model"]
    /\ UNCHANGED <<scenario, argv, modelFile, args, progress, imported, stdout, exitCode, uncaught,
                   fileAtStart, headResponse, libResult>>

(* install_whisper, lines 126-140, and lines 153-154.  pip's own output    *)
(* goes to the standard output the subprocess inherits.                    *)
InstallOutcomes == {"present", "pip_ok", "pip_failed"}

InstallWhisper(p) ==
    /\ pc[p] = "install_whisper"
    /\ \E o \in InstallOutcomes :
         IF o = "present"
         THEN /\ ops' = [ops EXCEPT ![p] = @ \o <<"install_whisper", "install_true">>]
              /\ stdout' = [stdout EXCEPT ![p] = @ \o <<Line("Whisper package is already installed")>>]
              /\ imported' = [imported EXCEPT ![p] = TRUE]
              /\ pc' = [pc EXCEPT ![p] = "import_whisper"]
              /\ UNCHANGED exitCode
         ELSE IF o = "pip_ok"
         THEN /\ ops' = [ops EXCEPT ![p] = @ \o <<"install_whisper", "pip_install", "install_true">>]
              /\ stdout' = [stdout EXCEPT ![p] = @ \o <<Line("Installing whisper package..."),
                     Line("pip output"), Line("Whisper package installed successfully")>>]
              /\ pc' = [pc EXCEPT ![p] = "import_whisper"]
              /\ UNCHANGED <<imported, exitCode>>
         ELSE /\ ReturnDoc(p, <<"install_whisper", "pip_install", "install_false">>,
                     <<Line("Installing whisper package..."), Line("pip output"),
                       Line("Error installing whisper package")>>,
                     ErrorDoc("Failed to install Whisper package"))
              /\ UNCHANGED imported
    /\ UNCHANGED <<scenario, argv, modelFile, args, progress, uncaught, fileAtStart, headResponse, libResult>>

(* Line 157: import whisper, outside every try.  It cannot fail when       *)
(* install_whisper imported the module; after a pip run it may, and the    *)
(* ImportError then ends the process with a traceback and exit code 1.     *)
ImportWhisper(p) ==
    /\ pc[p] = "import_whisper"
    /\ \E ok \in (IF imported[p] THEN {TRUE} ELSE BOOLEAN) :
         IF ok
         THEN /\ imported' = [imported EXCEPT ![p] = TRUE]
              /\ ops' = [ops EXCEPT ![p] = @ \o <<"import_whisper">>]
              /\ pc' = [pc EXCEPT ![p] = "load_model"]
              /\ UNCHANGED <<exitCode, uncaught>>
         ELSE /\ uncaught' = [uncaught EXCEPT ![p] = TRUE]
              /\ ops' = [ops EXCEPT ![p] = @ \o <<"import_whisper", "ImportError">>]
              /\ pc' = [pc EXCEPT ![p] = "exited"]
              /\ exitCode' = [exitCode EXCEPT ![p] = UncaughtExit]
              /\ UNCHANGED imported
    /\ UNCHANGED <<scenario, argv, modelFile, args, progress, stdout, fileAtStart, headResponse, libResult>>

(* Lines 159-162 and 174-175: whisper.load_model. *)
LoadModel(p) ==
    /\ pc[p] = "load_model"
    /\ \E ok \in BOOLEAN :
         IF ok
         THEN /\ ops' = [ops EXCEPT ![p] = @ \o <<"load_model">>]
              /\ stdout' = [stdout EXCEPT ![p] = @ \o <<Line("Loading Whisper model")>>]
              /\ pc' = [pc EXCEPT ![p] = "transcribe"]
              /\ UNCHANGED exitCode
         ELSE ReturnDoc(p, <<"load_model", "load_raised">>, <<Line("Loading Whisper model")>>,
                        ErrorDoc("Transcription error: load failed"))
    /\ UNCHANGED <<scenario, argv, modelFile, args, progress, imported, uncaught, fileAtStart,
                   headResponse, libResult>>

(* Lines 164-175: model.transcribe and the document built from its result. *)
Transcribe(p) ==
    /\ pc[p] = "transcribe"
    /\ \/ /\ ReturnDoc(p, <<"transcribe", "transcribe_raised">>, <<Line("Transcribing audio")>>,
                       ErrorDoc("Transcription error: transcribe failed"))
          /\ UNCHANGED libResult
       \/ \E result \in LibResults :
            /\ ReturnDoc(p, <<"transcribe", "transcribe_returned">>, <<Line("Transcribing audio")>>,
                         TranscriptionDoc(result))
            /\ libResult' = [libResult EXCEPT ![p] = result]
    /\ UNCHANGED <<scenario, argv, modelFile, args, progress, imported, uncaught, fileAtStart, headResponse>>

Next ==
    \E p \in Procs :
        \/ Launch(p)
        \/ VerifyModelDownload(p)
        \/ DownloadModel(p)
        \/ Urlretrieve(p)
        \/ Transfer(p)
        \/ AudioCheck(p)
        \/ ModelCheck(p)
        \/ InstallWhisper(p)
        \/ ImportWhisper(p)
        \/ LoadModel(p)
        \/ Transcribe(p)

Spec == Init /\ [][Next]_vars

(* One invocation, with its command line kept. *)
SpecCli == InitCli /\ [][Next]_vars

---------------------------------------------------------------------------
(* What the claims are stated with.                                        *)

Exited(p) == pc[p] = "exited"

Has(p, op) == \E i \in DOMAIN ops[p] : ops[p][i] = op

Count(p, op) == Cardinality({i \in DOMAIN ops[p] : ops[p][i] = op})

(* Every op before every other: all a are earlier in ops[p] than all b. *)
Before(p, a, b) ==
    \A i, j \in DOMAIN ops[p] : (ops[p][i] = a /\ ops[p][j] = b) => i < j

(* b directly follows a wherever b stands in ops[p]. *)
DirectlyAfter(p, a, b) ==
    \A j \in DOMAIN ops[p] : ops[p][j] = b => (j > 1 /\ ops[p][j - 1] = a)

JsonDocs(p) == {i \in DOMAIN stdout[p] : stdout[p][i].kind = "json"}

LastOut(p) == stdout[p][Len(stdout[p])]

PrintedError(p, message) ==
    /\ stdout[p] # <<>>
    /\ IsErrorDoc(LastOut(p))
    /\ JsonGet(LastOut(p), "error") = message

IsDownload(p) == args[p].command = "download"

IsTranscribe(p) == args[p].command = "transcribe"

---------------------------------------------------------------------------
(* C1: every transcribe invocation ends by printing a JSON document and    *)
(* exiting with code 0, whatever its steps meet; nothing escapes as an     *)
(* uncaught exception.  The code breaks this: import whisper on line 157   *)
(* stands outside the try, so an import that still fails after pip         *)
(* reported success ends the process with a traceback and exit code 1.     *)
C1_TranscribeAlwaysPrintsJsonAndExits0 ==
    \A p \in Procs :
        (IsTranscribe(p) /\ Exited(p)) =>
            /\ exitCode[p] = 0
            /\ ~uncaught[p]
            /\ JsonDocs(p) # {}

(* C2: download with --verify runs the reachability check first and, when  *)
(* it fails, exits 1 without running download_model; in every other case   *)
(* download_model runs exactly once and the exit code is 0 exactly when it *)
(* returned True and 1 otherwise; without --verify no HEAD request is made.*)
C2_DownloadCommand ==
    \A p \in Procs :
        IsDownload(p) =>
            /\ Count(p, "download_model") <= 1
            /\ Count(p, "verify_model_download") <= 1
            /\ ~args[p].verify => (~Has(p, "verify_model_download") /\ ~Has(p, "HEAD"))
            /\ (args[p].verify /\ Has(p, "download_model")) =>
                   (Has(p, "verify_true") /\ Before(p, "verify_true", "download_model"))
            /\ Has(p, "verify_false") =>
                   (Exited(p) /\ exitCode[p] = 1 /\ ~Has(p, "download_model") /\ ~Has(p, "GET"))
            /\ (Exited(p) /\ ~Has(p, "verify_false")) =>
                   /\ Count(p, "download_model") = 1
                   /\ Count(p, "download_true") + Count(p, "download_false") = 1
                   /\ exitCode[p] = 0 <=> Has(p, "download_true")
                   /\ exitCode[p] = 1 <=> Has(p, "download_false")

C2_Witness ==
    \E p \in Procs :
        /\ IsDownload(p) /\ args[p].verify /\ Exited(p)
        /\ Has(p, "verify_true") /\ Has(p, "download_false") /\ exitCode[p] = 1

---------------------------------------------------------------------------
(* The command lines the usage names: download with its two flags, and     *)
(* transcribe with one audio path.                                         *)
Range(sq) == {sq[i] : i \in DOMAIN sq}

WellFormed(av) ==
    /\ av # <<>>
    /\ \/ av[1] = "download" /\ \A i \in 2..Len(av) : av[i] \in {"--verify", "--verbose"}
       \/ Len(av) = 2 /\ av[1] = "transcribe" /\ ~IsOption(av[2])

AsksHelp(av) == "-h" \in Range(av)

HelpPrinted(p) ==
    \E i \in DOMAIN stdout[p] : stdout[p][i].kind = "text" /\ stdout[p][i].body = "usage help"

(* C3 as the spec has it: every command line that is not a well-formed     *)
(* download or transcribe (and does not ask for help) prints the usage     *)
(* help and exits 1, and the only exit codes are 0 and 1.                  *)
C3_MalformedPrintsHelpExits1 ==
    \A p \in Procs :
        Exited(p) =>
            /\ (~WellFormed(argv[p]) /\ ~AsksHelp(argv[p])) => (exitCode[p] = 1 /\ HelpPrinted(p))
            /\ exitCode[p] \in {0, 1}

(* C3, amended: the empty command line prints the usage help and exits 1;  *)
(* every other command line that is not well-formed and does not ask for   *)
(* help (unrecognized sub-command, unrecognized option, transcribe without *)
(* its audio path, left-over arguments) is rejected by argparse, which     *)
(* prints no help on standard output and exits 2; a command line with -h   *)
(* exits 0 or 2; a well-formed one is dispatched to its command and does   *)
(* not exit 2.  The exit codes are 0, 1 and 2.                             *)
C3_ExitCodes ==
    \A p \in Procs :
        /\ exitCode[p] \in {Running, 0, 1, 2}
        /\ (Exited(p) /\ scenario = "single") =>
              /\ exitCode[p] # Running
              /\ argv[p] = <<>> => (exitCode[p] = 1 /\ HelpPrinted(p))
              /\ (argv[p] # <<>> /\ ~WellFormed(argv[p]) /\ ~AsksHelp(argv[p])) =>
                     (exitCode[p] = 2 /\ ~HelpPrinted(p))
              /\ AsksHelp(argv[p]) => exitCode[p] \in {0, 2}
              /\ WellFormed(argv[p]) => (args[p].command = argv[p][1] /\ exitCode[p] \in {0, 1})

C3_Witness ==
    \E p \in Procs : Exited(p) /\ argv[p] = <<"transcribe">> /\ exitCode[p] = 2

---------------------------------------------------------------------------
(* C4 as the spec has it: once the model file is there, every download     *)
(* invocation makes no network request at all and exits 0.                 *)
C4_LaterDownloadNoNetwork ==
    \A p \in Procs :
        (IsDownload(p) /\ fileAtStart[p] # "absent") =>
            /\ ~Has(p, "GET")
            /\ ~Has(p, "HEAD")
            /\ Exited(p) => exitCode[p] = 0

(* C4, amended: once the model file is there, download_model returns True  *)
(* at once, with no GET request and without writing the file; a download   *)
(* invocation without --verify then makes no request and exits 0, while    *)
(* one with --verify still makes the HEAD request and exits 0 only when    *)
(* the verification succeeded.                                             *)
C4_ExistingFileNoDownload ==
    \A p \in Procs :
        (IsDownload(p) /\ fileAtStart[p] # "absent") =>
            /\ ~Has(p, "GET")
            /\ pc[p] \notin {"urlretrieve", "transfer"}
            /\ DirectlyAfter(p, "download_model", "download_true")
            /\ ~args[p].verify => (~Has(p, "HEAD") /\ (Exited(p) => exitCode[p] = 0))
            /\ (args[p].verify /\ Exited(p)) =>
                   /\ Has(p, "HEAD")
                   /\ exitCode[p] = 0 <=> Has(p, "verify_true")
                   /\ exitCode[p] = 1 <=> Has(p, "verify_false")

(* A download that starts after another invocation created the file. *)
C4_Witness ==
    \E p, q \in Procs :
        /\ p # q /\ Has(q, "complete")
        /\ IsDownload(p) /\ ~args[p].verify /\ fileAtStart[p] = "complete"
        /\ Exited(p) /\ exitCode[p] = 0

---------------------------------------------------------------------------
(* The step of transcribe each operation belongs to: 1 the audio path      *)
(* check, 2 the model fetch (the existence check of line 148 and           *)
(* download_model), 3 the dependency installer (with the import it makes   *)
(* possible), 4 the model load, 5 the library's transcribe.                *)
StepOf(op) ==
    IF op \in {"audio_exists", "audio_present", "audio_missing"} THEN 1
    ELSE IF op \in {"model_exists", "model_present", "model_missing", "download_model", "GET",
                    "download_true", "download_false"} \cup OpenOutcomes \cup TransferOutcomes THEN 2
    ELSE IF op \in {"install_whisper", "pip_install", "install_true", "install_false",
                    "import_whisper", "ImportError"} THEN 3
    ELSE IF op \in {"load_model", "load_raised"} THEN 4
    ELSE IF op \in {"transcribe", "transcribe_raised", "transcribe_returned"} THEN 5
    ELSE 0

FailureOps == {"audio_missing", "download_false", "install_false", "ImportError", "load_raised",
               "transcribe_raised"}

(* C5: what transcribe does is a prefix of audio path check, model fetch,  *)
(* dependency installer, model load, library transcribe.  The first step   *)
(* that fails is the last operation of the run, and a failed audio check,  *)
(* download or install ends it with the error document of that step.  The  *)
(* installer runs only once the model file was found or download_model     *)
(* returned True, and the reachability check never runs.                   *)
C5_TranscribeStepOrder ==
    \A p \in Procs :
        IsTranscribe(p) =>
            LET t == ops[p] IN
            /\ t[1] = "parse_args"
            /\ Len(t) >= 2 => StepOf(t[2]) = 1
            /\ \A i \in 2..Len(t) :
                  /\ StepOf(t[i]) >= 1
                  /\ i > 2 => StepOf(t[i]) \in {StepOf(t[i - 1]), StepOf(t[i - 1]) + 1}
                  /\ t[i] \in FailureOps => (i = Len(t) /\ Exited(p))
            /\ Has(p, "audio_missing") => PrintedError(p, "Audio file not found")
            /\ Has(p, "download_false") => PrintedError(p, "Failed to download Whisper model")
            /\ Has(p, "install_false") => PrintedError(p, "Failed to install Whisper package")
            /\ Has(p, "install_whisper") =>
                  \/ Has(p, "model_present") /\ Before(p, "model_present", "install_whisper")
                  \/ Has(p, "download_true") /\ Before(p, "download_true", "install_whisper")
            /\ ~Has(p, "verify_model_download") /\ ~Has(p, "HEAD")

(* The model was downloaded during the run and the installer then failed. *)
C5_Witness ==
    \E p \in Procs :
        /\ IsTranscribe(p) /\ Exited(p)
        /\ Has(p, "complete") /\ Has(p, "download_true") /\ Has(p, "install_false")
        /\ ~Has(p, "import_whisper") /\ ~Has(p, "load_model") /\ ~Has(p, "transcribe")

---------------------------------------------------------------------------
(* C6: a download that fails, whatever the reason, makes download_model    *)
(* return False and not raise, and the download command then exits 1;      *)
(* download_model returns True only when the file was already there or     *)
(* the transfer completed.                                                 *)
DownloadFailures == (OpenOutcomes \cup TransferOutcomes) \ {"ok", "complete"}

C6_DownloadFailureIsReturned ==
    \A p \in Procs :
        /\ (uncaught[p] /\ IsDownload(p)) => FALSE
        /\ uncaught[p] => ~Has(p, "download_false")
        /\ \A f \in DownloadFailures :
              Has(p, f) =>
                  /\ DirectlyAfter(p, f, "download_false") /\ Has(p, "download_false")
                  /\ ~Has(p, "download_true")
                  /\ IsDownload(p) => (Exited(p) /\ exitCode[p] = 1)
        /\ \A j \in DOMAIN ops[p] :
              ops[p][j] = "download_true" => ops[p][j - 1] \in {"download_model", "complete"}
        /\ \A j \in DOMAIN ops[p] :
              (ops[p][j] = "download_true" /\ ops[p][j - 1] = "complete") => ops[p][j - 2] = "ok"

C6_Witness ==
    \E p \in Procs :
        /\ IsDownload(p) /\ Exited(p) /\ exitCode[p] = 1
        /\ Has(p, "http_404") /\ Has(p, "download_false") /\ modelFile = "absent"

---------------------------------------------------------------------------
(* C7: on every path the claim lists (model present or downloaded, library *)
(* present or installed, success or error result) the standard output of a *)
(* transcribe invocation is one JSON document and nothing else.  The code  *)
(* breaks this on each of them: the status lines of install_whisper and    *)
(* transcribe_audio, pip's output and the lines of download_model are      *)
(* printed to the same standard output.                                    *)
C7_StdoutIsOneJsonDocument ==
    \A p \in Procs :
        (IsTranscribe(p) /\ Exited(p) /\ Has(p, "install_whisper")) =>
            /\ Cardinality(JsonDocs(p)) = 1
            /\ Len(stdout[p]) = 1

---------------------------------------------------------------------------
(* C8: when the library's transcribe returns a record with text, the       *)
(* document printed has exactly the members text, language and segments,   *)
(* in that order: the library's text, its language or "en" when it gave    *)
(* none, its segments in their order or the empty list when it gave none.  *)
(* A record without text gives an error document.                          *)
C8_TranscriptionDocument ==
    \A p \in Procs :
        Has(p, "transcribe_returned") =>
            LET r == libResult[p]
                doc == LastOut(p)
            IN  /\ Exited(p) /\ exitCode[p] = 0
                /\ doc.kind = "json"
                /\ IF "text" \in r.keys
                   THEN /\ Len(doc.body) = 3
                        /\ <<doc.body[1][1], doc.body[2][1], doc.body[3][1]>> = <<"text", "language", "segments">>
                        /\ JsonGet(doc, "text") = r.text
                        /\ JsonGet(doc, "language") = (IF "language" \in r.keys THEN r.language ELSE "en")
                        /\ JsonGet(doc, "segments") = (IF "segments" \in r.keys THEN r.segments ELSE <<>>)
                   ELSE /\ IsErrorDoc(doc)
                        /\ Len(doc.body) = 1

(* The library gave a language and segments, and they are passed on. *)
C8_Witness ==
    \E p \in Procs :
        /\ Has(p, "transcribe_returned")
        /\ libResult[p].keys = {"text", "language", "segments"}
        /\ JsonGet(LastOut(p), "language") = "da"
        /\ JsonGet(LastOut(p), "segments") = <<"s1", "s2">>

---------------------------------------------------------------------------
(* C9: the existence of the file is all that download_model and            *)
(* transcribe_audio look at.  A transfer that fails leaves the file it     *)
(* created, nothing ever removes the file, and an invocation that finds    *)
(* the file, whole or not, being written or not, goes on without a         *)
(* download and without touching it.                                       *)
C9_ExistenceIsSoleSignal ==
    [][\A p \in Procs :
          /\ (pc[p] = "download_model" /\ pc'[p] # "download_model" /\ modelFile # "absent") =>
                 /\ ops'[p] = ops[p] \o <<"download_model", "download_true">>
                 /\ modelFile' = modelFile
          /\ (pc[p] = "model_check" /\ pc'[p] # "model_check" /\ modelFile # "absent") =>
                 /\ pc'[p] = "install_whisper"
                 /\ modelFile' = modelFile
          /\ (pc[p] = "transfer" /\ pc'[p] # "transfer") =>
                 /\ modelFile # "absent"
                 /\ modelFile' # "absent"
                 /\ ops'[p][Len(ops'[p])] = "download_false" => modelFile' = modelFile
          /\ modelFile # "absent" => modelFile' # "absent"
      ]_vars

(* One invocation's transfer failed; the other found the partial file and  *)
(* download_model returned True; no transfer ever completed.               *)
C9_Witness ==
    \E p, q \in Procs :
        /\ p # q
        /\ modelFile = "partial"
        /\ \A r \in Procs : ~Has(r, "complete") /\ fileAtStart[r] # "complete"
        /\ Has(q, "ok") /\ Has(q, "download_false")
        /\ Has(p, "download_true") /\ ~Has(p, "GET")

---------------------------------------------------------------------------
(* C10: verify_model_download returns True exactly when the HEAD request   *)
(* is answered with status 200 and a Content-Length that is an integer;    *)
(* in every other case it returns False without raising, and download      *)
(* --verify exits 1 with no download attempted.                            *)
HoldsInteger(cl) == cl.present /\ cl.chars \in {<<"7", "5">>}

=============================================================================
